---- MODULE Spec2Model ----
(***************************************************************************)
(* A model of src/transducer.js, lines 1-218: the Transducer object (its   *)
(* stage list and the step cached by compose()), the stage constructors    *)
(* Filter / Map / Reduce, the builder methods, compose(), transduce() and  *)
(* composeTransduce().                                                     *)
(*                                                                         *)
(* JavaScript values are records [t, v]: numbers, NaN, null, undefined and *)
(* references to arrays.  Arrays are objects: they live in a heap and are  *)
(* reached by address, so that aliasing and in-place mutation are visible. *)
(* Functions are records too: the user callbacks (named, from a small      *)
(* catalogue), _push, and the closures _filter/_map/_reduce return.        *)
(***************************************************************************)
EXTENDS Integers, Sequences, FiniteSets, TLC

\* ------------------------------------------------------------------ bounds

MaxStages == 3
MaxLen == 2
MaxElem == 2
MaxRuns == 2

\* ------------------------------------------------------------ JS values

Num(n) == [t |-> "num", v |-> n]
NaN == [t |-> "nan", v |-> 0]
Null == [t |-> "null", v |-> 0]
Undefined == [t |-> "undef", v |-> 0]
Hole == [t |-> "hole", v |-> 0]
Ref(a) == [t |-> "ref", v |-> a]
Bool(b) == [t |-> "bool", v |-> IF b THEN 1 ELSE 0]

IsRef(x) == x.t = "ref"

\* x == null in JavaScript: true of null and of undefined only
IsNullish(x) == x.t \in {"null", "undef"}

\* ToNumber on the primitives of the model
ToNumber(x) ==
    CASE x.t = "num" -> x
      [] x.t = "null" -> Num(0)
      [] x.t = "bool" -> Num(x.v)
      [] OTHER -> NaN

\* a + b on numeric operands
Add(a, b) ==
    LET x == ToNumber(a)
        y == ToNumber(b)
    IN IF x.t = "nan" \/ y.t = "nan" THEN NaN ELSE Num(x.v + y.v)

\* a * b on numeric operands
Mul(a, b) ==
    LET x == ToNumber(a)
        y == ToNumber(b)
    IN IF x.t = "nan" \/ y.t = "nan" THEN NaN ELSE Num(x.v * y.v)

\* a % 2
Mod2(a) ==
    LET x == ToNumber(a)
    IN IF x.t = "nan" THEN NaN ELSE Num(x.v % 2)

\* the condition of an if statement
Truthy(x) ==
    CASE x.t = "num" -> x.v # 0
      [] x.t = "bool" -> x.v = 1
      [] x.t = "ref" -> TRUE
      [] OTHER -> FALSE

\* array[i], 0-based, on an array's slots: a hole or an index past the end
\* reads as undefined
Get(slots, i) ==
    IF i < 0 \/ i >= Len(slots) THEN Undefined
    ELSE IF slots[i + 1].t = "hole" THEN Undefined
    ELSE slots[i + 1]

\* ----------------------------------------------------------------- heap

\* The heap is a sequence of arrays; an array's address is its position.
Alloc(h, slots) == [heap |-> Append(h, slots), ref |-> Ref(Len(h) + 1)]

\* ------------------------------------------------------- user callbacks

FilterCallbacks == {"isOdd", "idxEven"}
MapCallbacks == {"double", "addIdx"}
ReduceCallbacks == {"sum", "sumLen", "pushMut"}
NoCallback == "undefined"

\* callbackFn(currentValue, currentIndex, array) of a Filter or a Map stage.
\*   isOdd   = (x) => x % 2
\*   idxEven = (x, i) => i % 2 === 0
\*   double  = (x) => x * 2
\*   addIdx  = (x, i) => x + i
CallUnary(cb, x, i, slots) ==
    CASE cb = "isOdd" -> Mod2(x)
      [] cb = "idxEven" -> Bool(i % 2 = 0)
      [] cb = "double" -> Mul(x, Num(2))
      [] cb = "addIdx" -> Add(x, Num(i))
      [] OTHER -> Undefined

\* callbackFn(accumulator, currentValue, currentIndex, array) of a Reduce
\* stage, on a primitive accumulator.
\*   sum    = (a, c) => a + c
\*   sumLen = (a, c, i, arr) => a + c + arr.length
CallCombine(cb, a, x, i, slots) ==
    CASE cb = "sum" -> Add(a, x)
      [] cb = "sumLen" -> Add(Add(a, x), Num(Len(slots)))
      [] OTHER -> Undefined

\* ------------------------------------------------------- function values

Fn(f, cb, next) == [f |-> f, cb |-> cb, next |-> next]
UndefinedFn == Fn("undefined", "", <<>>)
UserFn(cb) == IF cb = NoCallback THEN UndefinedFn ELSE Fn("user", cb, <<>>)

Ok(val) == [err |-> "none", val |-> val]
Throw(msg) == [err |-> msg, val |-> UndefinedFn]

\* --------------------------------------------------- stage constructors

\* An initial-value generator: Array itself (line 28), the closure
\* _initialValue returns (lines 93-95), or nothing yet.
Gen(f, seed) == [f |-> f, seed |-> seed]
ArrayGen == Gen("Array", Undefined)
UndefinedGen == Gen("undefined", Undefined)

\* Transducer._push, as a function value
_push == Fn("_push", "", <<>>)

\* Transducer._filter(callbackFn): the transducer function, or the throw
_filter(callbackFn) ==
    IF callbackFn = NoCallback THEN Throw("Missing callback function")
    ELSE Ok(Fn("filterT", callbackFn, <<>>))

\* Transducer._initialValue(initialValue): the generator, or the throw
_initialValue(initialValue) ==
    IF IsNullish(initialValue) THEN Throw("Missing initial value")
    ELSE Ok(Gen("clone", initialValue))

\* Transducer._map(callbackFn)
_map(callbackFn) ==
    IF callbackFn = NoCallback THEN Throw("Missing callback function")
    ELSE Ok(Fn("mapT", callbackFn, <<>>))

\* Transducer._reduce(callbackFn)
_reduce(callbackFn) ==
    IF callbackFn = NoCallback THEN Throw("Missing callback function")
    ELSE Ok(Fn("reduceT", callbackFn, <<>>))

Stage(kind, initialValue, reducer, transducer) ==
    [kind |-> kind, initialValue |-> initialValue,
     reducer |-> reducer, transducer |-> transducer]

\* new Transducer.Filter(callbackFn)
Filter(callbackFn) ==
    LET t == _filter(callbackFn)
    IN IF t.err # "none" THEN Throw(t.err)
       ELSE Ok(Stage("Filter", ArrayGen, _push, t.val))

\* new Transducer.Map(callbackFn)
Map(callbackFn) ==
    LET t == _map(callbackFn)
    IN IF t.err # "none" THEN Throw(t.err)
       ELSE Ok(Stage("Map", ArrayGen, _push, t.val))

\* new Transducer.Reduce(callbackFn, initialValue): the seed is checked
\* first (line 59), the callback after it (line 61)
Reduce(callbackFn, initialValue) ==
    LET g == _initialValue(initialValue)
        t == _reduce(callbackFn)
    IN IF g.err # "none" THEN Throw(g.err)
       ELSE IF t.err # "none" THEN Throw(t.err)
       ELSE Ok(Stage("Reduce", g.val, UserFn(callbackFn), t.val))

\* ------------------------------------------------------------- compose

\* transducer(reducer): the function (reducer) => ... that _filter, _map
\* and _reduce return, applied to a reducer
ApplyTransducer(t, reducer) ==
    CASE t.f = "filterT" -> Ok(Fn("filterStep", t.cb, <<reducer>>))
      [] t.f = "mapT" -> Ok(Fn("mapStep", t.cb, <<reducer>>))
      [] t.f = "reduceT" ->
            IF reducer # UserFn(t.cb) THEN Throw("Reduce not last")
            ELSE Ok(reducer)
      [] OTHER -> Throw("TypeError")

\* the loop of compose(), from stage i (1-based) down to the first
RECURSIVE ComposeLoop(_, _, _)
ComposeLoop(ts, i, reducer) ==
    IF i < 1 THEN Ok(reducer)
    ELSE LET r == ApplyTransducer(ts[i].transducer, reducer)
         IN IF r.err # "none" THEN r ELSE ComposeLoop(ts, i - 1, r.val)

\* a loop that starts below the last stage: i = n - 2, 0-based
ComposeStart_BelowLast(n) == n - 1

\* the stage the loop of compose() starts at: i = n - 1, 0-based
ComposeStart(n) == n

\* a loop that starts from the step cached before, when there is one
ComposeSeed_Cached(cur, transducer) ==
    IF cur # UndefinedFn THEN cur ELSE transducer.reducer

\* the reducer the loop of compose() starts from
ComposeSeed(cur, transducer) == transducer.reducer

\* compose() on a Transducer whose fields are ts (transducers), g
\* (_initialValue) and r (_reducer): the error it throws and the fields
\* _initialValue and _reducer after it
Composed(err, g, r) == [err |-> err, _initialValue |-> g, _reducer |-> r]

\* a compose() that stores _initialValue before its loop runs
ComposeOf_StoresFirst(ts, g, r) ==
    LET n == Len(ts)
    IN IF n = 0 THEN Composed("TypeError", g, r)
       ELSE LET transducer == ts[n]
                res == ComposeLoop(ts, ComposeStart(n), ComposeSeed(r, transducer))
            IN IF res.err # "none" THEN Composed(res.err, transducer.initialValue, r)
               ELSE Composed("none", transducer.initialValue, res.val)

ComposeOf(ts, g, r) ==
    LET n == Len(ts)
    IN IF n = 0 THEN Composed("TypeError", g, r)
       ELSE LET transducer == ts[n]
                res == ComposeLoop(ts, ComposeStart(n), ComposeSeed(r, transducer))
            IN IF res.err # "none" THEN Composed(res.err, g, r)
               ELSE Composed("none", transducer.initialValue, res.val)

\* ----------------------------------------------------------- execution

\* The machine while transduce() runs: the heap, the callback invocations
\* so far, the accumulator after each element so far, the error thrown (or
\* "none") and the value the last call returned.
Machine(h) == [heap |-> h, calls |-> <<>>, accs |-> <<>>, err |-> "none", ret |-> Undefined]

\* one invocation of a callback (or of _push): its arguments and its result
CallRec(fn, x, i, arr, ret) ==
    [f |-> fn.f, cb |-> fn.cb, x |-> x, i |-> i, arr |-> arr, ret |-> ret]

\* a value together with the contents of the array it refers to, if any
Snapshot(x, h) ==
    [val |-> x, slots |-> IF IsRef(x) /\ x.v \in 1..Len(h) THEN h[x.v] ELSE <<>>]

\* accumulator.push(currentValue); return accumulator
PushOnto(fn, m, acc, x, i, arr) ==
    IF IsRef(acc)
    THEN [m EXCEPT !.heap[acc.v] = Append(@, x),
                   !.calls = Append(@, CallRec(fn, x, i, arr, acc)),
                   !.ret = acc]
    ELSE [m EXCEPT !.err = "TypeError"]

\* a user combine callback, called as reducer(accumulator, value, index, array)
\*   pushMut = (a, c) => { a.push(c); return a; }
UserStep(fn, m, acc, x, i, arr) ==
    IF fn.cb = "pushMut" THEN PushOnto(fn, m, acc, x, i, arr)
    ELSE IF IsRef(acc) THEN [m EXCEPT !.err = "TypeError"]
    ELSE LET r == CallCombine(fn.cb, acc, x, i, m.heap[arr.v])
         IN [m EXCEPT !.calls = Append(@, CallRec(fn, x, i, arr, r)), !.ret = r]

RECURSIVE Call(_, _, _, _, _, _)

\* a _filter step that forwards every element, whatever callbackFn returns
FilterStep_AlwaysForwards(fn, m, acc, x, i, arr) ==
    LET r == CallUnary(fn.cb, x, i, m.heap[arr.v])
        m1 == [m EXCEPT !.calls = Append(@, CallRec(fn, x, i, arr, r))]
    IN Call(fn.next[1], m1, acc, x, i, arr)

\* the step _filter builds: function (accumulator, currentValue, currentIndex, array)
FilterStep(fn, m, acc, x, i, arr) ==
    LET r == CallUnary(fn.cb, x, i, m.heap[arr.v])
        m1 == [m EXCEPT !.calls = Append(@, CallRec(fn, x, i, arr, r))]
    IN IF Truthy(r) THEN Call(fn.next[1], m1, acc, x, i, arr)
       ELSE [m1 EXCEPT !.ret = acc]

\* a _map step that forwards the element it was given, not callbackFn's result
MapStep_ForwardsElement(fn, m, acc, x, i, arr) ==
    LET r == CallUnary(fn.cb, x, i, m.heap[arr.v])
        m1 == [m EXCEPT !.calls = Append(@, CallRec(fn, x, i, arr, r))]
    IN Call(fn.next[1], m1, acc, x, i, arr)

\* the step _map builds
MapStep(fn, m, acc, x, i, arr) ==
    LET r == CallUnary(fn.cb, x, i, m.heap[arr.v])
        m1 == [m EXCEPT !.calls = Append(@, CallRec(fn, x, i, arr, r))]
    IN Call(fn.next[1], m1, acc, r, i, arr)

\* fn(acc, x, i, arr) for any function value the pipeline can hold
Call(fn, m, acc, x, i, arr) ==
    CASE fn.f = "_push" -> PushOnto(fn, m, acc, x, i, arr)
      [] fn.f = "user" -> UserStep(fn, m, acc, x, i, arr)
      [] fn.f = "filterStep" -> FilterStep(fn, m, acc, x, i, arr)
      [] fn.f = "mapStep" -> MapStep(fn, m, acc, x, i, arr)
      [] OTHER -> [m EXCEPT !.err = "TypeError"]

\* JSON.parse(JSON.stringify(x)) on one array slot: NaN, undefined and a
\* hole come back as null
JSONSlot(x) == IF x.t \in {"nan", "undef", "hole"} THEN Null ELSE x

\* a generator that hands out the seed itself, uncopied
JSONClone_Shared(x, h) == [heap |-> h, val |-> x, err |-> "none"]

\* JSON.parse(JSON.stringify(x)): a number comes back as itself, NaN as
\* null, an array as a new array; undefined does not parse
JSONClone(x, h) ==
    CASE x.t = "ref" ->
            LET a == Alloc(h, [k \in 1..Len(h[x.v]) |-> JSONSlot(h[x.v][k])])
            IN [heap |-> a.heap, val |-> a.ref, err |-> "none"]
      [] x.t = "nan" -> [heap |-> h, val |-> Null, err |-> "none"]
      [] x.t = "undef" -> [heap |-> h, val |-> Undefined, err |-> "SyntaxError"]
      [] OTHER -> [heap |-> h, val |-> x, err |-> "none"]

\* this._initialValue(): Array() builds a new empty array, the closure of
\* _initialValue copies the seed, and undefined is not a function
CallGen(g, h) ==
    CASE g.f = "Array" ->
            LET a == Alloc(h, <<>>)
            IN [heap |-> a.heap, val |-> a.ref, err |-> "none"]
      [] g.f = "clone" -> JSONClone(g.seed, h)
      [] OTHER -> [heap |-> h, val |-> Undefined, err |-> "TypeError"]

\* the loop of transduce(): for (i = 0; i < n; i++)
RECURSIVE TransduceLoop(_, _, _, _, _, _)
TransduceLoop(reducer, m, acc, i, n, arr) ==
    IF i >= n \/ m.err # "none" THEN [m EXCEPT !.ret = acc]
    ELSE LET r == Call(reducer, m, acc, Get(m.heap[arr.v], i), i, arr)
         IN TransduceLoop(reducer,
                          [r EXCEPT !.accs = Append(@, Snapshot(r.ret, r.heap))],
                          r.ret, i + 1, n, arr)

\* transduce(array) on a Transducer whose cached fields are g and r, with
\* the heap h; array is undefined or a reference into h
TransduceOf(g, r, h, array) ==
    IF IsNullish(array) THEN [Machine(h) EXCEPT !.err = "Missing array"]
    ELSE LET a == CallGen(g, h)
         IN IF a.err # "none" THEN [Machine(h) EXCEPT !.err = a.err]
            ELSE TransduceLoop(r,
                               [Machine(a.heap) EXCEPT !.accs = <<Snapshot(a.val, a.heap)>>],
                               a.val, 0, Len(h[array.v]), array)

\* -------------------------------------------------------------- state

VARIABLES
    transducers,        \* this.transducers: the stage list
    this_initialValue,  \* this._initialValue: the generator compose() cached
    this_reducer,       \* this._reducer: the step compose() cached
    heap,               \* the arrays the stages hold (the Reduce seeds)
    heap0,              \* history: those arrays as they were constructed
    composedFrom,       \* history: the stage list of the last compose() that returned
    runs,               \* history: transduce() calls that returned since then, up to MaxRuns
    repeated,           \* history: the last call was a compose() that returned, on a
                        \* stage list unchanged since the compose() that returned before it
    args,               \* the callback and the seed passed to the last builder call
    op,                 \* the last call made on the Transducer
    err,                \* the message of the error it threw, or "none"
    arg,                \* the array argument of the last transduce()
    result,             \* what the last transduce() returned
    calls,              \* the callback invocations of the last transduce()
    accs                \* the accumulator before its first element and after each

vars == <<transducers, this_initialValue, this_reducer, heap, heap0, composedFrom,
          runs, repeated, args, op, err, arg, result, calls, accs>>

NoResult == Snapshot(Undefined, <<>>)
NoArg == [given |-> FALSE, slots |-> <<>>]
NoArgs == [cb |-> "", seed |-> ""]

\* the arguments the callers of the model pass
Slots == {Num(k) : k \in 1..MaxElem} \cup {Hole}
Arrays == UNION {[1..n -> Slots] : n \in 0..MaxLen}
ArrayArgs == {NoArg} \cup {[given |-> TRUE, slots |-> s] : s \in Arrays}
SeedLiterals == {"0", "NaN", "[]", "undefined"}

\* the seeds a combine callback can work on: pushMut needs an array, the
\* sums a number
WellTyped(cb, lit) ==
    \/ cb = NoCallback
    \/ lit = "undefined"
    \/ cb = "pushMut" /\ lit = "[]"
    \/ cb \in {"sum", "sumLen"} /\ lit \in {"0", "NaN"}

\* the value of a seed literal; [] is a new array
SeedValue(lit, h) ==
    CASE lit = "0" -> [heap |-> h, val |-> Num(0)]
      [] lit = "NaN" -> [heap |-> h, val |-> NaN]
      [] lit = "[]" -> [heap |-> Alloc(h, <<>>).heap, val |-> Alloc(h, <<>>).ref]
      [] OTHER -> [heap |-> h, val |-> Undefined]

\* a stage as the caller writes it: Transducer.Filter(cb), Transducer.Map(cb)
\* or Transducer.Reduce(cb, seed)
NewStage(kind, cb, lit, h) ==
    LET sv == SeedValue(lit, h)
        st == CASE kind = "Filter" -> Filter(cb)
                [] kind = "Map" -> Map(cb)
                [] OTHER -> Reduce(cb, sv.val)
    IN [err |-> st.err, val |-> st.val,
        heap |-> IF st.err = "none" /\ kind = "Reduce" THEN sv.heap ELSE h]

RECURSIVE NewStages(_, _)
NewStages(specs, h) ==
    IF specs = <<>> THEN [stages |-> <<>>, heap |-> h]
    ELSE LET s == NewStage(specs[1][1], specs[1][2], specs[1][3], h)
             rest == NewStages(Tail(specs), s.heap)
         IN [stages |-> <<s.val>> \o rest.stages, heap |-> rest.heap]

\* the stage lists passed to Transducer([...]); <<"undefined">> is no argument
StageLists ==
    { <<"undefined">>,
      <<>>,
      << <<"Filter", "isOdd", "">>, <<"Map", "double", "">>, <<"Reduce", "sum", "0">> >>,
      << <<"Reduce", "pushMut", "[]">> >> }

Min(a, b) == IF a < b THEN a ELSE b

Init ==
    /\ transducers = <<>>
    /\ this_initialValue = UndefinedGen
    /\ this_reducer = UndefinedFn
    /\ heap = <<>>
    /\ heap0 = <<>>
    /\ composedFrom = <<>>
    /\ runs = 0
    /\ repeated = FALSE
    /\ args = NoArgs
    /\ op = "Transducer"
    /\ err = "none"
    /\ arg = NoArg
    /\ result = NoResult
    /\ calls = <<>>
    /\ accs = <<>>

\* a call that is neither a builder call with arguments, nor a repeated
\* compose(), nor a run
Plain ==
    /\ repeated' = FALSE
    /\ args' = NoArgs

NoRun ==
    /\ arg' = NoArg
    /\ result' = NoResult
    /\ calls' = <<>>
    /\ accs' = <<>>

\* Transducer(transducers): a new Transducer
Transducer ==
    \E list \in StageLists :
        LET b == IF list = <<"undefined">> THEN NewStages(<<>>, <<>>)
                 ELSE NewStages(list, <<>>)
        IN /\ transducers' = b.stages
           /\ this_initialValue' = UndefinedGen
           /\ this_reducer' = UndefinedFn
           /\ heap' = b.heap
           /\ heap0' = b.heap
           /\ composedFrom' = <<>>
           /\ runs' = 0
           /\ op' = "Transducer"
           /\ err' = "none"
           /\ Plain
           /\ NoRun

\* this.transducers.push(new Transducer.<kind>(...)): the constructor runs
\* first, and when it throws nothing is pushed
Push(name, kind, cb, lit) ==
    LET s == NewStage(kind, cb, lit, heap)
    IN /\ Len(transducers) < MaxStages
       /\ transducers' = IF s.err = "none" THEN Append(transducers, s.val) ELSE transducers
       /\ heap' = s.heap
       /\ heap0' = heap0 \o SubSeq(s.heap, Len(heap) + 1, Len(s.heap))
       /\ op' = name
       /\ err' = s.err
       /\ repeated' = FALSE
       /\ args' = [cb |-> cb, seed |-> lit]
       /\ NoRun
       /\ UNCHANGED <<this_initialValue, this_reducer, composedFrom, runs>>

filter == \E cb \in FilterCallbacks \cup {NoCallback} : Push("filter", "Filter", cb, "")

map == \E cb \in MapCallbacks \cup {NoCallback} : Push("map", "Map", cb, "")

reduce ==
    \E cb \in ReduceCallbacks \cup {NoCallback}, lit \in SeedLiterals :
        /\ WellTyped(cb, lit)
        /\ Push("reduce", "Reduce", cb, lit)

compose ==
    LET c == ComposeOf(transducers, this_initialValue, this_reducer)
    IN /\ this_initialValue' = c._initialValue
       /\ this_reducer' = c._reducer
       /\ composedFrom' = IF c.err = "none" THEN transducers ELSE composedFrom
       /\ runs' = IF c.err = "none" THEN 0 ELSE runs
       /\ repeated' = (c.err = "none" /\ composedFrom = transducers)
       /\ args' = NoArgs
       /\ op' = "compose"
       /\ err' = c.err
       /\ NoRun
       /\ UNCHANGED <<transducers, heap, heap0>>

\* the run of transduce(array) with the cached fields g and r
Run(g, r, array) ==
    IF array.given
    THEN LET a == Alloc(heap, array.slots)
         IN TransduceOf(g, r, a.heap, a.ref)
    ELSE TransduceOf(g, r, heap, Undefined)

\* the address of the array argument during a run
ArgRef == Ref(Len(heap) + 1)

Ran(m, array) ==
    /\ err' = m.err
    /\ arg' = array
    /\ result' = IF m.err = "none" THEN Snapshot(m.ret, m.heap) ELSE NoResult
    /\ calls' = m.calls
    /\ accs' = m.accs
    /\ heap' = SubSeq(m.heap, 1, Len(heap))

transduce ==
    \E array \in ArrayArgs :
        /\ Ran(Run(this_initialValue, this_reducer, array), array)
        /\ op' = "transduce"
        /\ Plain
        /\ runs' = IF err' = "none" THEN Min(runs + 1, MaxRuns) ELSE runs
        /\ UNCHANGED <<transducers, this_initialValue, this_reducer, heap0, composedFrom>>

\* this.compose(); return this.transduce(array);
composeTransduce ==
    \E array \in ArrayArgs :
        LET c == ComposeOf(transducers, this_initialValue, this_reducer)
        IN /\ this_initialValue' = c._initialValue
           /\ this_reducer' = c._reducer
           /\ op' = "composeTransduce"
           /\ Plain
           /\ IF c.err = "none"
              THEN /\ Ran(Run(c._initialValue, c._reducer, array), array)
                   /\ composedFrom' = transducers
                   /\ runs' = IF err' = "none" THEN 1 ELSE 0
              ELSE /\ err' = c.err
                   /\ NoRun
                   /\ UNCHANGED <<heap, composedFrom, runs>>
           /\ UNCHANGED <<transducers, heap0>>

Next ==
    \/ Transducer
    \/ filter
    \/ map
    \/ reduce
    \/ compose
    \/ transduce
    \/ composeTransduce

Spec == Init /\ [][Next]_vars

\* ============================================================ claims

\* the last call ran a traversal to its end and returned
Returned == op \in {"transduce", "composeTransduce"} /\ err = "none"

\* the stage list the cached step was composed from, read back from its
\* stages: kinds, callbacks and seeds as they were constructed
KindsOf(ts) == [k \in 1..Len(ts) |-> ts[k].kind]
CbOf(stage) == stage.transducer.cb
SeedSnapshot(stage) == Snapshot(stage.initialValue.seed, heap0)

\* two results are the same value: the same primitive, or arrays with the
\* same contents
SameValue(a, b) ==
    IF IsRef(a.val) \/ IsRef(b.val)
    THEN IsRef(a.val) /\ IsRef(b.val) /\ a.slots = b.slots
    ELSE a.val = b.val

\* ---- the standard sequential methods of Array.prototype, on array contents

\* S.filter(P): holes are skipped, P gets (element, index, S)
RECURSIVE SeqFilterFrom(_, _, _)
SeqFilterFrom(cb, S, k) ==
    IF k > Len(S) THEN <<>>
    ELSE IF S[k].t # "hole" /\ Truthy(CallUnary(cb, S[k], k - 1, S))
         THEN <<S[k]>> \o SeqFilterFrom(cb, S, k + 1)
         ELSE SeqFilterFrom(cb, S, k + 1)

SeqFilter(cb, S) == SeqFilterFrom(cb, S, 1)

\* F.map(T) on a dense F: T gets (element, index, F)
SeqMap(cb, F) == [k \in 1..Len(F) |-> CallUnary(cb, F[k], k - 1, F)]

\* M.reduce(C, Z) on a dense M: C gets (accumulator, element, index, M);
\* the accumulator starts as Z itself
RECURSIVE SeqReduceFrom(_, _, _, _)
SeqReduceFrom(cb, acc, M, k) ==
    IF k > Len(M) THEN acc
    ELSE SeqReduceFrom(cb,
                       IF cb = "pushMut"
                       THEN [acc EXCEPT !.slots = Append(@, M[k])]
                       ELSE [acc EXCEPT !.val = CallCombine(cb, acc.val, M[k], k - 1, M)],
                       M, k + 1)

SeqReduce(cb, z, M) == SeqReduceFrom(cb, z, M, 1)

Sequential(S, P, T, C, z) == SeqReduce(C, z, SeqMap(T, SeqFilter(P, S)))

IsFilterMapReduce(ts) == KindsOf(ts) = <<"Filter", "Map", "Reduce">>

\* callbacks of the catalogue that read only the element (and the accumulator)
ElementOnly == {"isOdd", "double", "sum", "pushMut"}

\* a seed JSON.parse(JSON.stringify(z)) gives back unchanged
PlainData(z) == z.val.t \in {"num", "ref"} /\ \A k \in 1..Len(z.slots) : z.slots[k].t = "num"

Dense(S) == \A k \in 1..Len(S) : S[k].t # "hole"

\* C1, as stated: [Filter(P), Map(T), Reduce(C, Z)] composed and run once over
\* S returns the value of S.filter(P).map(T).reduce(C, Z), for every S, Z and
\* all pure P, T, C, those reading their index and array arguments included.
C1_AsStated ==
    (Returned /\ IsFilterMapReduce(composedFrom)) =>
        SameValue(result,
                  Sequential(arg.slots, CbOf(composedFrom[1]), CbOf(composedFrom[2]),
                             CbOf(composedFrom[3]), SeedSnapshot(composedFrom[3])))

\* C1, amended: the same equality, for a dense S, a seed that is plain JSON
\* data, and T and C that read only the element (and the accumulator); P may
\* read its index and array arguments.
C1_SequentialEquivalence ==
    (/\ Returned
     /\ IsFilterMapReduce(composedFrom)
     /\ Dense(arg.slots)
     /\ PlainData(SeedSnapshot(composedFrom[3]))
     /\ CbOf(composedFrom[2]) \in ElementOnly
     /\ CbOf(composedFrom[3]) \in ElementOnly) =>
        SameValue(result,
                  Sequential(arg.slots, CbOf(composedFrom[1]), CbOf(composedFrom[2]),
                             CbOf(composedFrom[3]), SeedSnapshot(composedFrom[3])))

\* C1's case: a predicate that reads the index, over an array of which it
\* keeps some and drops some, summed to a non-zero total
C1_Witness ==
    /\ Returned
    /\ IsFilterMapReduce(composedFrom)
    /\ CbOf(composedFrom[1]) = "idxEven"
    /\ CbOf(composedFrom[2]) = "double"
    /\ CbOf(composedFrom[3]) = "sum"
    /\ Dense(arg.slots)
    /\ Len(arg.slots) = MaxLen
    /\ result.val = Num(2 * arg.slots[1].v)
    /\ PlainData(SeedSnapshot(composedFrom[3]))

\* what a Transducer built anew from the stages ts, composed and run once
\* over the array S, returns: its seeds are as they were constructed
FreshRun(ts, S) ==
    LET c == ComposeOf(ts, UndefinedGen, UndefinedFn)
        a == Alloc(heap0, S)
    IN TransduceOf(c._initialValue, c._reducer, a.heap, a.ref)

\* the last run returned an array no stage holds and that is not the argument
OwnAccumulator == IsRef(result.val) => result.val.v > ArgRef.v

\* C2: after one compose(), every transduce() returns what a freshly composed
\* pipeline returns for that array alone, in an accumulator of its own, also
\* when the combine callback mutates its accumulator in place; and no run
\* changes the seed a Reduce stage holds.
C2_IndependentRuns ==
    /\ heap = heap0
    /\ Returned =>
        /\ OwnAccumulator
        /\ LET m == FreshRun(composedFrom, arg.slots)
           IN m.err = "none" /\ SameValue(result, Snapshot(m.ret, m.heap))

\* C2's case: the second run after one compose(), with a combine callback
\* that pushed onto its accumulator
C2_Witness ==
    /\ op = "transduce"
    /\ err = "none"
    /\ runs = MaxRuns
    /\ composedFrom # <<>>
    /\ composedFrom[Len(composedFrom)].reducer = UserFn("pushMut")
    /\ Len(result.slots) = MaxLen
    /\ transducers = composedFrom

NonLastReduce(ts) == \E k \in 1..(Len(ts) - 1) : ts[k].kind = "Reduce"

\* C3: compose() on a stage list with a Reduce stage that is not the last
\* fails with "Reduce not last", whatever the other stages are.
C3_ReduceNotLast ==
    (op = "compose" /\ NonLastReduce(transducers)) => err = "Reduce not last"

NoReduce(ts) == ts # <<>> /\ \A k \in 1..Len(ts) : ts[k].kind # "Reduce"

\* the elements of S, in order, on which P(element, index, S) holds
RECURSIVE KeptFrom(_, _, _)
KeptFrom(cb, S, k) ==
    IF k > Len(S) THEN <<>>
    ELSE IF Truthy(CallUnary(cb, Get(S, k - 1), k - 1, S))
         THEN <<Get(S, k - 1)>> \o KeptFrom(cb, S, k + 1)
         ELSE KeptFrom(cb, S, k + 1)

\* [T(S[0]), ..., T(S[n-1])]
Mapped(cb, S) == [k \in 1..Len(S) |-> CallUnary(cb, Get(S, k - 1), k - 1, S)]

\* C4: a pipeline with no Reduce stage returns a new array, never the
\* argument; [Filter(P)] alone returns the elements on which P holds, P
\* getting each element's index in S, and [Map(T)] alone returns
\* [T(S[0]), ..., T(S[n-1])].
C4_CollectingPipeline ==
    (Returned /\ NoReduce(composedFrom)) =>
        /\ IsRef(result.val)
        /\ result.val.v > ArgRef.v
        /\ KindsOf(composedFrom) = <<"Filter">> =>
                result.slots = KeptFrom(CbOf(composedFrom[1]), arg.slots, 1)
        /\ KindsOf(composedFrom) = <<"Map">> =>
                result.slots = Mapped(CbOf(composedFrom[1]), arg.slots)

\* C4's case: a single Filter stage whose predicate reads the index and
\* drops an element
C4_Witness ==
    /\ Returned
    /\ KindsOf(composedFrom) = <<"Filter">>
    /\ CbOf(composedFrom[1]) = "idxEven"
    /\ Len(arg.slots) = MaxLen
    /\ Len(result.slots) < Len(arg.slots)
    /\ Len(result.slots) > 0

\* no stage of the list lacks its callback or its seed
StagesComplete(ts) ==
    \A k \in 1..Len(ts) :
        /\ ts[k].transducer.cb # NoCallback
        /\ ts[k].transducer.f # "undefined"
        /\ ts[k].kind = "Reduce" =>
                ts[k].initialValue.f = "clone" /\ ~IsNullish(ts[k].initialValue.seed)

\* C5: Filter or Map without a callback, and Reduce without a combine
\* callback, fail with "Missing callback function"; Reduce with a callback
\* and no seed fails with "Missing initial value"; the stage list never holds
\* a stage that lacks its callback or its seed.
C5_EagerValidation ==
    /\ (op \in {"filter", "map", "reduce"} /\ args.cb = NoCallback) =>
            err = "Missing callback function"
    /\ (op = "reduce" /\ args.cb # NoCallback /\ args.seed = "undefined") =>
            err = "Missing initial value"
    /\ StagesComplete(transducers)

\* the messages that name the contract a call violated
ContractErrors ==
    {"Missing callback function", "Missing initial value", "Reduce not last",
     "Missing array", "Empty pipeline"}

\* C6: compose() on a pipeline with no stage fails with an error that names
\* the violated contract.
C6_EmptyPipeline ==
    (op = "compose" /\ transducers = <<>>) => err \in ContractErrors

\* the cache is what compose() builds from the stage list it last succeeded on
CacheIsLastCompose ==
    IF composedFrom = <<>>
    THEN this_initialValue = UndefinedGen /\ this_reducer = UndefinedFn
    ELSE LET c == ComposeOf(composedFrom, UndefinedGen, UndefinedFn)
         IN c.err = "none" /\ this_initialValue = c._initialValue /\ this_reducer = c._reducer

\* a step that changes the cache of this Transducer is a compose() that returns
CacheChangesOnlyOnCompose ==
    (this_initialValue' # this_initialValue \/ this_reducer' # this_reducer) =>
        \/ op' = "Transducer"
        \/ /\ op' \in {"compose", "composeTransduce"}
           /\ ComposeOf(transducers, this_initialValue, this_reducer).err = "none"
           /\ composedFrom' = transducers

\* C7: _reducer and _initialValue are changed only by a compose() that
\* succeeds: filter(), map(), reduce(), transduce() and a compose() that
\* throws leave them as they are, so transduce() runs the step of the last
\* successful compose() even when the stage list has changed since.
C7_CacheFrame == [](CacheIsLastCompose) /\ [][CacheChangesOnlyOnCompose]_vars

\* C7's case: a compose() that throws on a Transducer composed before, whose
\* stage list has grown since
C7_Witness ==
    /\ op = "compose"
    /\ err = "Reduce not last"
    /\ composedFrom # <<>>
    /\ Len(transducers) > Len(composedFrom)
    /\ this_reducer # UndefinedFn

\* C8: compose() again on an unchanged stage list leaves the cached step and
\* generator, the stage list and the stages as they were after the first.
C8_IdempotentCompose ==
    [][(op' = "compose" /\ err' = "none" /\ composedFrom = transducers) =>
            /\ this_reducer' = this_reducer
            /\ this_initialValue' = this_initialValue
            /\ transducers' = transducers
            /\ heap' = heap]_vars

\* C8's case: a second compose() on an unchanged list of three stages
C8_Witness ==
    /\ repeated
    /\ KindsOf(transducers) = <<"Filter", "Map", "Reduce">>
    /\ this_reducer.f = "filterStep"

\* C9: transduce(array) on a Transducer with a stage, never composed,
\* returns what composeTransduce(array) returns.
C9_TransduceWithoutCompose ==
    (/\ op = "transduce"
     /\ arg.given
     /\ transducers # <<>>
     /\ this_reducer = UndefinedFn) =>
        LET c == ComposeOf(transducers, this_initialValue, this_reducer)
            m == Run(c._initialValue, c._reducer, arg)
        IN (c.err = "none" /\ m.err = "none") =>
                err = "none" /\ SameValue(result, Snapshot(m.ret, m.heap))

\* the callbacks a stage list invokes for one element, in stage order, and
\* after them the append step when the last stage is not a Reduce
StageCall(stage) ==
    [f |-> CASE stage.kind = "Filter" -> "filterStep"
             [] stage.kind = "Map" -> "mapStep"
             [] OTHER -> "user",
     cb |-> CbOf(stage)]

CallsPerElement(ts) ==
    [k \in 1..Len(ts) |-> StageCall(ts[k])]
        \o (IF ts # <<>> /\ ts[Len(ts)].kind # "Reduce"
            THEN <<[f |-> "_push", cb |-> ""]>> ELSE <<>>)

\* the invocations of the last run that were made for index i
CallsAt(i) == SelectSeq(calls, LAMBDA c : c.i = i)

\* the invocations for index i are a prefix of the stage callbacks, in stage
\* order; the first gets S[i]; each later one gets what the Map before it
\* returned, or else what the one before it got; all get the array S; a Filter
\* that returns false is the last, and the accumulator stays as it was
ElementOrder(i, expected) ==
    LET ci == CallsAt(i)
    IN /\ Len(ci) >= 1
       /\ Len(ci) <= Len(expected)
       /\ ci[1].x = Get(arg.slots, i)
       /\ \A j \in 1..Len(ci) :
            /\ ci[j].f = expected[j].f
            /\ ci[j].cb = expected[j].cb
            /\ ci[j].arr = ArgRef
            /\ j > 1 => ci[j].x = (IF ci[j - 1].f = "mapStep" THEN ci[j - 1].ret ELSE ci[j - 1].x)
            /\ (ci[j].f = "filterStep" /\ ~Truthy(ci[j].ret)) =>
                    j = Len(ci) /\ accs[i + 2] = accs[i + 1]

\* C10: one transduce(S) visits the indices 0..length-1 in ascending order,
\* once each, to the end; per element the stage callbacks run in stage order,
\* each at most once, all of index i before any of index i+1; after a Filter
\* that returns false nothing more runs for the element and the accumulator
\* is unchanged; a stage after a Map gets the transformed value, with the
\* element's index and the array S.
C10_TraversalOrder ==
    Returned =>
        /\ Len(accs) = Len(arg.slots) + 1
        /\ \A k \in 1..Len(calls) : calls[k].i \in 0..(Len(arg.slots) - 1)
        /\ \A k \in 1..(Len(calls) - 1) : calls[k].i <= calls[k + 1].i
        /\ \A i \in 0..(Len(arg.slots) - 1) : ElementOrder(i, CallsPerElement(composedFrom))

\* C10's case: a Filter drops the first element and keeps the second, whose
\* transformed value reaches the combine callback with index 1
C10_Witness ==
    /\ Returned
    /\ IsFilterMapReduce(composedFrom)
    /\ Len(arg.slots) = 2
    /\ Len(CallsAt(0)) = 1
    /\ Len(CallsAt(1)) = 3
    /\ CallsAt(1)[2].cb = "addIdx"
    /\ CallsAt(1)[3].x = CallsAt(1)[2].ret
    /\ CallsAt(1)[3].x # CallsAt(1)[2].x

====
